---- MODULE Spec2Model ----
(***************************************************************************)
(* ESG report quality analyzer: the keyword/regex scorers of               *)
(* esg_panel_analyzer.py (ESGPanelAnalyzer) and esg_quality_analyzer.py    *)
(* (ESGQualityAnalyzer), the filename parser, and the batch driver main()  *)
(* of esg_panel_analyzer.py.                                               *)
(*                                                                         *)
(* A Python str is a sequence of characters.  A character is a one-element *)
(* TLA+ string: a printable ASCII character stands for itself, "\n" is the *)
(* line feed, and any other code point is written "U+XXXX".                *)
(***************************************************************************)
EXTENDS Integers, Sequences, FiniteSets, TLC

VARIABLES
    \* ---- main() of esg_panel_analyzer.py
    txt_files,      \* the list globbed from reports_dir (line 131)
    i,              \* position of the for loop in txt_files (line 135), 1-based
    results,        \* rows collected so far (line 127)
    failed_files,   \* failure records collected so far (line 128)
    scores,         \* the local `scores` of the last iteration (line 141)
    exc,            \* the exception caught in the last iteration (line 162)
    invoked,        \* names of the files analyze_report was called on (line 141)
    output_csv,     \* rows written to esg_panel_data_*.csv (lines 170-176)
    failed_csv,     \* rows written to failed_files_*.csv (lines 179-184)
    pc,             \* control position of the specification being run
    \* ---- one document handed to both scorers
    doc,            \* the document: [readable, pages]
    panel_checks,   \* the three check_* results of ESGPanelAnalyzer on doc
    panel,          \* ESGPanelAnalyzer.analyze_report(doc)
    quality_checks, \* the three check_* results of ESGQualityAnalyzer on doc
    quality,        \* ESGQualityAnalyzer.analyze_report(doc)
    \* ---- scoring of a text and of the same text with content added around it
    pre, suf,       \* text added before / after the text of doc
    base_scores,    \* check_* results on the text of doc
    wrapped_scores, \* check_* results on pre + text + suf
    \* ---- parse_filename
    filename,       \* the filename handed to parse_filename
    parsed          \* what parse_filename returned

vars == << txt_files, i, results, failed_files, scores, exc, invoked, output_csv,
           failed_csv, pc, doc, panel_checks, panel, quality_checks, quality,
           pre, suf, base_scores, wrapped_scores, filename, parsed >>

batch_vars == << txt_files, i, results, failed_files, scores, exc, invoked,
                 output_csv, failed_csv >>
scorer_vars == << panel_checks, panel, quality_checks, quality >>
mono_vars == << pre, suf, base_scores, wrapped_scores >>
parse_vars == << filename, parsed >>

\* An optional value (None or a value) is a sequence of at most one element.
None == <<>>
Some(v) == <<v>>

\* The element of a one-element set.  Only({ e(x) : x \in {v} }) is e(v) with
\* v computed once, like a Python local variable holding v.
Only(S) == CHOOSE x \in S : TRUE

(***************************************************************************)
(* The vocabularies set up by the two constructors.                        *)
(***************************************************************************)
Panel_standards_keywords ==
    << <<"G", "R", "I">>,
       <<"G", "l", "o", "b", "a", "l", " ", "R", "e", "p", "o", "r", "t", "i", "n", "g", " ", "I", "n", "i", "t", "i", "a", "t", "i", "v", "e">>,
       <<"S", "A", "S", "B">>,
       <<"S", "u", "s", "t", "a", "i", "n", "a", "b", "i", "l", "i", "t", "y", " ", "A", "c", "c", "o", "u", "n", "t", "i", "n", "g", " ", "S", "t", "a", "n", "d", "a", "r", "d", "s", " ", "B", "o", "a", "r", "d">>,
       <<"T", "C", "F", "D">>,
       <<"T", "a", "s", "k", " ", "F", "o", "r", "c", "e", " ", "o", "n", " ", "C", "l", "i", "m", "a", "t", "e", "-", "R", "e", "l", "a", "t", "e", "d", " ", "F", "i", "n", "a", "n", "c", "i", "a", "l", " ", "D", "i", "s", "c", "l", "o", "s", "u", "r", "e", "s">>,
       <<"I", "S", "S", "B">>,
       <<"I", "n", "t", "e", "r", "n", "a", "t", "i", "o", "n", "a", "l", " ", "S", "u", "s", "t", "a", "i", "n", "a", "b", "i", "l", "i", "t", "y", " ", "S", "t", "a", "n", "d", "a", "r", "d", "s", " ", "B", "o", "a", "r", "d">>,
       <<"C", "S", "R", "D">>,
       <<"C", "o", "r", "p", "o", "r", "a", "t", "e", " ", "S", "u", "s", "t", "a", "i", "n", "a", "b", "i", "l", "i", "t", "y", " ", "R", "e", "p", "o", "r", "t", "i", "n", "g", " ", "D", "i", "r", "e", "c", "t", "i", "v", "e">>,
       <<"S", "D", "G", "s">>,
       <<"S", "u", "s", "t", "a", "i", "n", "a", "b", "l", "e", " ", "D", "e", "v", "e", "l", "o", "p", "m", "e", "n", "t", " ", "G", "o", "a", "l", "s">>,
       <<"U+5168", "U+7403", "U+62A5", "U+544A", "U+5021", "U+8BAE">>,
       <<"U+53EF", "U+6301", "U+7EED", "U+53D1", "U+5C55", "U+4F1A", "U+8BA1", "U+51C6", "U+5219">>,
       <<"U+6C14", "U+5019", "U+76F8", "U+5173", "U+8D22", "U+52A1", "U+62AB", "U+9732">>,
       <<"U+56FD", "U+9645", "U+53EF", "U+6301", "U+7EED", "U+53D1", "U+5C55", "U+51C6", "U+5219">>,
       <<"U+6B27", "U+76DF", "U+4F01", "U+4E1A", "U+53EF", "U+6301", "U+7EED", "U+53D1", "U+5C55", "U+62A5", "U+544A", "U+6307", "U+4EE4">>,
       <<"U+4E0A", "U+5E02", "U+516C", "U+53F8", "U+793E", "U+4F1A", "U+8D23", "U+4EFB", "U+6307", "U+5F15">> >>

Panel_assurance_keywords ==
    << <<"U+7B2C", "U+4E09", "U+65B9", "U+9274", "U+8BC1">>,
       <<"U+72EC", "U+7ACB", "U+9A8C", "U+8BC1">>,
       <<"U+5916", "U+90E8", "U+5BA1", "U+8BA1">>,
       <<"U+72EC", "U+7ACB", "U+4FDD", "U+8BC1">>,
       <<"U+72EC", "U+7ACB", "U+9274", "U+8BC1", "U+62A5", "U+544A">>,
       <<"U+7B2C", "U+4E09", "U+65B9", "U+9274", "U+8BC1">>,
       <<"U+72EC", "U+7ACB", "U+6838", "U+9A8C">>,
       <<"U+5916", "U+90E8", "U+9274", "U+8BC1">>,
       <<"U+5916", "U+90E8", "U+6838", "U+9A8C">>,
       <<"a", "s", "s", "u", "r", "e", "d", " ", "b", "y">>,
       <<"v", "e", "r", "i", "f", "i", "e", "d", " ", "b", "y">>,
       <<"U+72EC", "U+7ACB", "U+5BA1", "U+8BA1", "U+5E08", "U+62A5", "U+544A">>,
       <<"a", "s", "s", "u", "r", "a", "n", "c", "e">>,
       <<"t", "h", "i", "r", "d", "-", "p", "a", "r", "t", "y", " ", "v", "e", "r", "i", "f", "i", "c", "a", "t", "i", "o", "n">>,
       <<"i", "n", "d", "e", "p", "e", "n", "d", "e", "n", "t", " ", "a", "u", "d", "i", "t">> >>

Panel_quantitative_units ==
    << <<"U+5428">>,
       <<"%">>,
       <<"U+5343", "U+74E6", "U+65F6">>,
       <<"U+7ACB", "U+65B9", "U+7C73">>,
       <<"U+5C0F", "U+65F6">>,
       <<"U+4EBA", "U+6B21">>,
       <<"U+5143">> >>

Panel_kpi_keywords ==
    << <<"U+5173", "U+952E", "U+7EE9", "U+6548", "U+6307", "U+6807">>,
       <<"U+73AF", "U+5883", "U+7EE9", "U+6548", "U+6570", "U+636E">>,
       <<"U+793E", "U+4F1A", "U+7EE9", "U+6548", "U+6570", "U+636E">>,
       <<"U+53EF", "U+6301", "U+7EED", "U+53D1", "U+5C55", "U+8868", "U+73B0">>,
       <<"E", "S", "G", " ", "U+6570", "U+636E">>,
       <<"U+7EE9", "U+6548", "U+6307", "U+6807", "U+4E00", "U+89C8">>,
       <<"U+6838", "U+5FC3", "U+6307", "U+6807">>,
       <<"K", "P", "I">> >>

Quality_standards_keywords ==
    << <<"G", "R", "I">>,
       <<"G", "l", "o", "b", "a", "l", " ", "R", "e", "p", "o", "r", "t", "i", "n", "g", " ", "I", "n", "i", "t", "i", "a", "t", "i", "v", "e">>,
       <<"S", "A", "S", "B">>,
       <<"S", "u", "s", "t", "a", "i", "n", "a", "b", "i", "l", "i", "t", "y", " ", "A", "c", "c", "o", "u", "n", "t", "i", "n", "g", " ", "S", "t", "a", "n", "d", "a", "r", "d", "s", " ", "B", "o", "a", "r", "d">>,
       <<"T", "C", "F", "D">>,
       <<"T", "a", "s", "k", " ", "F", "o", "r", "c", "e", " ", "o", "n", " ", "C", "l", "i", "m", "a", "t", "e", "-", "R", "e", "l", "a", "t", "e", "d", " ", "F", "i", "n", "a", "n", "c", "i", "a", "l", " ", "D", "i", "s", "c", "l", "o", "s", "u", "r", "e", "s">>,
       <<"I", "S", "S", "B">>,
       <<"I", "n", "t", "e", "r", "n", "a", "t", "i", "o", "n", "a", "l", " ", "S", "u", "s", "t", "a", "i", "n", "a", "b", "i", "l", "i", "t", "y", " ", "S", "t", "a", "n", "d", "a", "r", "d", "s", " ", "B", "o", "a", "r", "d">>,
       <<"C", "S", "R", "D">>,
       <<"C", "o", "r", "p", "o", "r", "a", "t", "e", " ", "S", "u", "s", "t", "a", "i", "n", "a", "b", "i", "l", "i", "t", "y", " ", "R", "e", "p", "o", "r", "t", "i", "n", "g", " ", "D", "i", "r", "e", "c", "t", "i", "v", "e">>,
       <<"S", "D", "G", "s">>,
       <<"S", "u", "s", "t", "a", "i", "n", "a", "b", "l", "e", " ", "D", "e", "v", "e", "l", "o", "p", "m", "e", "n", "t", " ", "G", "o", "a", "l", "s">>,
       <<"U+5168", "U+7403", "U+62A5", "U+544A", "U+5021", "U+8BAE">>,
       <<"U+53EF", "U+6301", "U+7EED", "U+53D1", "U+5C55", "U+4F1A", "U+8BA1", "U+51C6", "U+5219">>,
       <<"U+6C14", "U+5019", "U+76F8", "U+5173", "U+8D22", "U+52A1", "U+62AB", "U+9732">>,
       <<"U+56FD", "U+9645", "U+53EF", "U+6301", "U+7EED", "U+53D1", "U+5C55", "U+51C6", "U+5219">>,
       <<"U+6B27", "U+76DF", "U+4F01", "U+4E1A", "U+53EF", "U+6301", "U+7EED", "U+53D1", "U+5C55", "U+62A5", "U+544A", "U+6307", "U+4EE4">> >>

\* Variant of Quality_assurance_keywords that has lost "assurance": the two
\* copies of the vocabulary have drifted apart
Quality_assurance_keywords_drifted ==
    SelectSeq(Panel_assurance_keywords,
              LAMBDA kw : kw # <<"a", "s", "s", "u", "r", "a", "n", "c", "e">>)

Quality_assurance_keywords ==
    << <<"U+7B2C", "U+4E09", "U+65B9", "U+9274", "U+8BC1">>,
       <<"U+72EC", "U+7ACB", "U+9A8C", "U+8BC1">>,
       <<"U+5916", "U+90E8", "U+5BA1", "U+8BA1">>,
       <<"U+72EC", "U+7ACB", "U+4FDD", "U+8BC1">>,
       <<"U+72EC", "U+7ACB", "U+9274", "U+8BC1", "U+62A5", "U+544A">>,
       <<"U+7B2C", "U+4E09", "U+65B9", "U+9274", "U+8BC1">>,
       <<"U+72EC", "U+7ACB", "U+6838", "U+9A8C">>,
       <<"U+5916", "U+90E8", "U+9274", "U+8BC1">>,
       <<"U+5916", "U+90E8", "U+6838", "U+9A8C">>,
       <<"a", "s", "s", "u", "r", "e", "d", " ", "b", "y">>,
       <<"v", "e", "r", "i", "f", "i", "e", "d", " ", "b", "y">>,
       <<"U+72EC", "U+7ACB", "U+5BA1", "U+8BA1", "U+5E08", "U+62A5", "U+544A">>,
       <<"a", "s", "s", "u", "r", "a", "n", "c", "e">>,
       <<"t", "h", "i", "r", "d", "-", "p", "a", "r", "t", "y", " ", "v", "e", "r", "i", "f", "i", "c", "a", "t", "i", "o", "n">>,
       <<"i", "n", "d", "e", "p", "e", "n", "d", "e", "n", "t", " ", "a", "u", "d", "i", "t">> >>

Quality_quantitative_units ==
    << <<"U+5428">>,
       <<"%">>,
       <<"U+5343", "U+74E6", "U+65F6">>,
       <<"U+7ACB", "U+65B9", "U+7C73">>,
       <<"U+5C0F", "U+65F6">>,
       <<"U+4EBA", "U+6B21">>,
       <<"U+5143">> >>

Quality_kpi_keywords ==
    << <<"U+5173", "U+952E", "U+7EE9", "U+6548", "U+6307", "U+6807">>,
       <<"U+73AF", "U+5883", "U+7EE9", "U+6548", "U+6570", "U+636E">>,
       <<"U+793E", "U+4F1A", "U+7EE9", "U+6548", "U+6570", "U+636E">>,
       <<"U+53EF", "U+6301", "U+7EED", "U+53D1", "U+5C55", "U+8868", "U+73B0">>,
       <<"E", "S", "G", " ", "U+6570", "U+636E">>,
       <<"U+7EE9", "U+6548", "U+6307", "U+6807", "U+4E00", "U+89C8">>,
       <<"U+6838", "U+5FC3", "U+6307", "U+6807">>,
       <<"K", "P", "I">> >>

\* ESGPanelAnalyzer() and ESGQualityAnalyzer(): the object's four fields
ESGPanelAnalyzer ==
    [ standards_keywords |-> Panel_standards_keywords,
      assurance_keywords |-> Panel_assurance_keywords,
      quantitative_units |-> Panel_quantitative_units,
      kpi_keywords       |-> Panel_kpi_keywords ]

ESGQualityAnalyzer ==
    [ standards_keywords |-> Quality_standards_keywords,
      assurance_keywords |-> Quality_assurance_keywords,
      quantitative_units |-> Quality_quantitative_units,
      kpi_keywords       |-> Quality_kpi_keywords ]

(***************************************************************************)
(* Python str and re primitives used by the scorers.                       *)
(***************************************************************************)
\* str.lower() on one character: the cased characters of the vocabularies
\* and of the inputs are the ASCII letters; every other character is kept.
ToLower ==
    ("A" :> "a") @@ ("B" :> "b") @@ ("C" :> "c") @@ ("D" :> "d") @@ ("E" :> "e") @@
    ("F" :> "f") @@ ("G" :> "g") @@ ("H" :> "h") @@ ("I" :> "i") @@ ("J" :> "j") @@
    ("K" :> "k") @@ ("L" :> "l") @@ ("M" :> "m") @@ ("N" :> "n") @@ ("O" :> "o") @@
    ("P" :> "p") @@ ("Q" :> "q") @@ ("R" :> "r") @@ ("S" :> "s") @@ ("T" :> "t") @@
    ("U" :> "u") @@ ("V" :> "v") @@ ("W" :> "w") @@ ("X" :> "x") @@ ("Y" :> "y") @@
    ("Z" :> "z")

lower_char(c) == IF c \in DOMAIN ToLower THEN ToLower[c] ELSE c

\* str.lower()
RECURSIVE str_lower(_)
str_lower(s) ==
    IF s = <<>> THEN <<>> ELSE << lower_char(Head(s)) >> \o str_lower(Tail(s))

\* the literal string lit occupies text[k .. k+Len(lit)-1]
literal_at(text, k, lit) ==
    /\ k >= 1
    /\ k + Len(lit) - 1 <= Len(text)
    /\ \A j \in 1..Len(lit) : text[k + j - 1] = lit[j]

\* Python's `sub in text` for str
str_in(sub, text) ==
    \E s \in {sub} : \E k \in 1..(Len(text) - Len(s) + 1) : literal_at(text, k, s)

\* re: \d and \s on the characters of the model's alphabet
Digits == {"0", "1", "2", "3", "4", "5", "6", "7", "8", "9"}
Whitespace == {" ", "\t", "\n", "\r", "\f", "U+000B"}
IsDigit(c) == c \in Digits
IsSpace(c) == c \in Whitespace

\* re: the end positions (index of the first character after the match) of
\* every match of \d+ that starts at k
digits_from(text, k) ==
    IF k > Len(text) \/ ~IsDigit(text[k]) THEN {}
    ELSE { e \in (k + 1)..(Len(text) + 1) : \A j \in k..(e - 1) : IsDigit(text[j]) }

\* re: the end positions of every match of (\.\d+)? that starts at k
opt_fraction_from(text, k) ==
    {k} \cup (IF k <= Len(text) /\ text[k] = "." THEN digits_from(text, k + 1) ELSE {})

\* re: the end positions of every match of \s* that starts at k
spaces_from(text, k) ==
    { e \in k..(Len(text) + 1) : \A j \in k..(e - 1) : IsSpace(text[j]) }

\* Variant of number_unit_search with re.match in place of re.search: the
\* number must start the text.
number_unit_search_anchored(text, unit) ==
    \E s \in {1} \cap (1..Len(text)) :
        \E a \in digits_from(text, s) :
            \E b \in opt_fraction_from(text, a) :
                \E c \in spaces_from(text, b) : literal_at(text, c, unit)

\* re.search(r'\d+(\.\d+)?\s*' + unit, text) is not None.  No unit holds a
\* regex metacharacter, so the unit is matched literally.
number_unit_search(text, unit) ==
    \E s \in 1..Len(text) :
        \E a \in digits_from(text, s) :
            \E b \in opt_fraction_from(text, a) :
                \E c \in spaces_from(text, b) : literal_at(text, c, unit)

\* re.MULTILINE: ^ matches at the start of the string and right after "\n"
at_line_start(text, k) == k = 1 \/ text[k - 1] = "\n"

\* Variant of kpi_heading_search with the anchors left out of the pattern:
\* the keyword matches anywhere in the text.
kpi_heading_search_unanchored(text, keyword) == str_in(keyword, text)

\* re.search(r'^' + keyword + r'|[\n]' + keyword, text, re.MULTILINE) is not
\* None.  No KPI keyword holds a regex metacharacter.
kpi_heading_search(text, keyword) ==
    \/ \E k \in 1..Len(text) : at_line_start(text, k) /\ literal_at(text, k, keyword)
    \/ \E k \in 1..Len(text) : text[k] = "\n" /\ literal_at(text, k + 1, keyword)

(***************************************************************************)
(* The scorers.  The check_* methods of the two classes are the same code  *)
(* run on the fields of self.                                              *)
(***************************************************************************)
\* for keyword in keywords: if keyword.lower() in text: return 1 / return 0
RECURSIVE keyword_loop(_, _, _)
keyword_loop(keywords, text, k) ==
    IF k > Len(keywords) THEN 0
    ELSE IF str_in(str_lower(keywords[k]), text) THEN 1
    ELSE keyword_loop(keywords, text, k + 1)

check_standards_compliance(self, text) ==
    Only({ keyword_loop(self.standards_keywords, lowered, 1) : lowered \in {str_lower(text)} })

\* Variant of check_third_party_assurance without `text = text.lower()`
check_third_party_assurance_no_lower(self, text) ==
    keyword_loop(self.assurance_keywords, text, 1)

check_third_party_assurance(self, text) ==
    Only({ keyword_loop(self.assurance_keywords, lowered, 1) : lowered \in {str_lower(text)} })

\* rule 1: for unit in self.quantitative_units
RECURSIVE unit_loop(_, _, _)
unit_loop(units, text, k) ==
    IF k > Len(units) THEN 0
    ELSE IF number_unit_search(text, units[k]) THEN 1
    ELSE unit_loop(units, text, k + 1)

\* rule 2: for keyword in self.kpi_keywords
RECURSIVE kpi_loop(_, _, _)
kpi_loop(keywords, text, k) ==
    IF k > Len(keywords) THEN 0
    ELSE IF kpi_heading_search(text, keywords[k]) THEN 1
    ELSE kpi_loop(keywords, text, k + 1)

check_quantitative_metrics(self, text) ==
    IF unit_loop(self.quantitative_units, text, 1) = 1 THEN 1
    ELSE IF kpi_loop(self.kpi_keywords, text, 1) = 1 THEN 1
    ELSE 0

\* "".join(pages)
RECURSIVE join(_)
join(pages) == IF pages = <<>> THEN <<>> ELSE Head(pages) \o join(Tail(pages))

\* ESGPanelAnalyzer.extract_text_from_txt: file.read(), "" on any exception
extract_text_from_txt(file) == IF file.readable THEN join(file.pages) ELSE <<>>

\* ESGQualityAnalyzer.extract_text_from_pdf: the pages' texts concatenated,
\* "" on any exception
RECURSIVE pdf_pages_loop(_, _)
pdf_pages_loop(text, pages) ==
    IF pages = <<>> THEN text ELSE pdf_pages_loop(text \o Head(pages), Tail(pages))

extract_text_from_pdf(file) == IF file.readable THEN pdf_pages_loop(<<>>, file.pages) ELSE <<>>

\* Variant of ESGPanelAnalyzer.analyze_report whose total leaves the metrics
\* score out
Panel_analyze_report_partial_total(file) ==
    Only({ IF text = <<>> THEN None
           ELSE Only({ Some([ standards_score |-> standards_score,
                              assurance_score |-> assurance_score,
                              metrics_score   |-> metrics_score,
                              total_score     |-> standards_score + assurance_score ]) :
                         standards_score \in {check_standards_compliance(ESGPanelAnalyzer, text)},
                         assurance_score \in {check_third_party_assurance(ESGPanelAnalyzer, text)},
                         metrics_score   \in {check_quantitative_metrics(ESGPanelAnalyzer, text)} }) :
             text \in {extract_text_from_txt(file)} })

\* Variant of ESGPanelAnalyzer.analyze_report without the `if not text` guard:
\* an empty text is scored like any other
Panel_analyze_report_no_empty_guard(file) ==
    Only({ Only({ Some([ standards_score |-> standards_score,
                         assurance_score |-> assurance_score,
                         metrics_score   |-> metrics_score,
                         total_score     |-> standards_score + assurance_score
                                                 + metrics_score ]) :
                    standards_score \in {check_standards_compliance(ESGPanelAnalyzer, text)},
                    assurance_score \in {check_third_party_assurance(ESGPanelAnalyzer, text)},
                    metrics_score   \in {check_quantitative_metrics(ESGPanelAnalyzer, text)} }) :
             text \in {extract_text_from_txt(file)} })

\* ESGPanelAnalyzer.analyze_report
Panel_analyze_report(file) ==
    Only({ IF text = <<>> THEN None
           ELSE Only({ Some([ standards_score |-> standards_score,
                              assurance_score |-> assurance_score,
                              metrics_score   |-> metrics_score,
                              total_score     |-> standards_score + assurance_score
                                                      + metrics_score ]) :
                         standards_score \in {check_standards_compliance(ESGPanelAnalyzer, text)},
                         assurance_score \in {check_third_party_assurance(ESGPanelAnalyzer, text)},
                         metrics_score   \in {check_quantitative_metrics(ESGPanelAnalyzer, text)} }) :
             text \in {extract_text_from_txt(file)} })

\* ESGQualityAnalyzer.analyze_report
Quality_analyze_report(file) ==
    Only({ IF text = <<>> THEN None
           ELSE Only({ Some([ standards_compliance  |-> standards_score,
                              third_party_assurance |-> assurance_score,
                              quantitative_metrics  |-> metrics_score,
                              total_score           |-> standards_score + assurance_score
                                                            + metrics_score ]) :
                         standards_score \in {check_standards_compliance(ESGQualityAnalyzer, text)},
                         assurance_score \in {check_third_party_assurance(ESGQualityAnalyzer, text)},
                         metrics_score   \in {check_quantitative_metrics(ESGQualityAnalyzer, text)} }) :
             text \in {extract_text_from_pdf(file)} })

\* the three check_* methods of one analyzer applied to one text
check_all(self, text) ==
    Only({ [ standards |-> check_standards_compliance(self, t),
             assurance |-> check_third_party_assurance(self, t),
             metrics   |-> check_quantitative_metrics(self, t) ] : t \in {text} })

(***************************************************************************)
(* Inputs of the scorers.  A document is built from at most MaxPieces      *)
(* pieces: the pages of a PDF, or the consecutive parts of a text file.    *)
(***************************************************************************)
MaxPieces == 3

\* "Gri", "SAS", "B", "Assurance", the guideline name that only the panel
\* vocabulary holds, "2.5", ".", " ", "\n", "%", "KPI"
Pieces ==
    { <<"G", "r", "i">>,
      <<"S", "A", "S">>,
      <<"B">>,
      <<"A", "s", "s", "u", "r", "a", "n", "c", "e">>,
      <<"U+4E0A", "U+5E02", "U+516C", "U+53F8", "U+793E", "U+4F1A", "U+8D23", "U+4EFB", "U+6307", "U+5F15">>,
      <<"2", ".", "5">>,
      <<".">>,
      <<" ">>,
      <<"\n">>,
      <<"%">>,
      <<"K", "P", "I">> }

PageSeqs(n) == UNION { [1..k -> Pieces] : k \in 0..n }

\* the variables of the specifications that are not running, at rest
BatchIdle ==
    /\ txt_files = <<>> /\ i = 1 /\ results = <<>> /\ failed_files = <<>>
    /\ scores = None /\ exc = None /\ invoked = <<>>
    /\ output_csv = None /\ failed_csv = None
ScorerIdle ==
    /\ panel_checks = None /\ panel = None
    /\ quality_checks = None /\ quality = None
MonoIdle ==
    /\ pre = <<>> /\ suf = <<>> /\ base_scores = None /\ wrapped_scores = None
ParseIdle ==
    /\ filename = <<>> /\ parsed = None
NoDoc == [readable |-> FALSE, pages |-> <<>>]

(***************************************************************************)
(* ScorerSpec: one document is scored by both analyzers.                   *)
(***************************************************************************)
\* readable documents of up to MaxPieces pieces, and unreadable ones
ScorerDocs ==
    { [readable |-> TRUE, pages |-> p] : p \in PageSeqs(MaxPieces) }
        \cup { [readable |-> FALSE, pages |-> p] : p \in PageSeqs(1) }

ScorerInit ==
    /\ doc \in ScorerDocs
    /\ pc = "score_start"
    /\ ScorerIdle /\ BatchIdle /\ MonoIdle /\ ParseIdle

\* the three check_* methods of ESGPanelAnalyzer on the document's text
PanelCheck ==
    /\ pc = "score_start"
    /\ panel_checks' = Some(check_all(ESGPanelAnalyzer, join(doc.pages)))
    /\ pc' = "panel_checked"
    /\ UNCHANGED << doc, panel, quality_checks, quality, batch_vars, mono_vars, parse_vars >>

\* ESGPanelAnalyzer.analyze_report on the document
PanelAnalyze ==
    /\ pc = "panel_checked"
    /\ panel' = Panel_analyze_report(doc)
    /\ pc' = "panel_analyzed"
    /\ UNCHANGED << doc, panel_checks, quality_checks, quality, batch_vars, mono_vars, parse_vars >>

\* the three check_* methods of ESGQualityAnalyzer on the document's text
QualityCheck ==
    /\ pc = "panel_analyzed"
    /\ quality_checks' = Some(check_all(ESGQualityAnalyzer, join(doc.pages)))
    /\ pc' = "quality_checked"
    /\ UNCHANGED << doc, panel_checks, panel, quality, batch_vars, mono_vars, parse_vars >>

\* ESGQualityAnalyzer.analyze_report on the document
QualityAnalyze ==
    /\ pc = "quality_checked"
    /\ quality' = Quality_analyze_report(doc)
    /\ pc' = "score_done"
    /\ UNCHANGED << doc, panel_checks, panel, quality_checks, batch_vars, mono_vars, parse_vars >>

ScorerNext == PanelCheck \/ PanelAnalyze \/ QualityCheck \/ QualityAnalyze

ScorerSpec == ScorerInit /\ [][ScorerNext]_vars

(***************************************************************************)
(* MonoSpec: a text is scored alone, then with text added before and after.*)
(***************************************************************************)
MaxMonoPieces == 2

\* the texts added around the document: nothing, "B", "\n", "B\n", "%", "KPI"
Affixes ==
    { <<>>, <<"B">>, <<"\n">>, <<"B", "\n">>, <<"%">>, <<"K", "P", "I">> }

MonoInit ==
    /\ doc \in { [readable |-> TRUE, pages |-> p] : p \in PageSeqs(MaxMonoPieces) }
    /\ pre \in Affixes
    /\ suf \in Affixes
    /\ base_scores = None /\ wrapped_scores = None
    /\ pc = "mono_start"
    /\ ScorerIdle /\ BatchIdle /\ ParseIdle

\* the three check_* methods on the text t
ScoreBase ==
    /\ pc = "mono_start"
    /\ base_scores' = Some(check_all(ESGPanelAnalyzer, join(doc.pages)))
    /\ pc' = "mono_base"
    /\ UNCHANGED << doc, pre, suf, wrapped_scores, batch_vars, scorer_vars, parse_vars >>

\* the three check_* methods on the text p + t + s
ScoreWrapped ==
    /\ pc = "mono_base"
    /\ wrapped_scores' = Some(check_all(ESGPanelAnalyzer, pre \o join(doc.pages) \o suf))
    /\ pc' = "mono_done"
    /\ UNCHANGED << doc, pre, suf, base_scores, batch_vars, scorer_vars, parse_vars >>

MonoNext == ScoreBase \/ ScoreWrapped

MonoSpec == MonoInit /\ [][MonoNext]_vars

(***************************************************************************)
(* parse_filename (esg_panel_analyzer.py lines 97-106).                     *)
(***************************************************************************)
DigitValue ==
    ("0" :> 0) @@ ("1" :> 1) @@ ("2" :> 2) @@ ("3" :> 3) @@ ("4" :> 4) @@
    ("5" :> 5) @@ ("6" :> 6) @@ ("7" :> 7) @@ ("8" :> 8) @@ ("9" :> 9)

\* int() of a string of decimal digits
RECURSIVE int_from(_, _)
int_from(value, digits) ==
    IF digits = <<>> THEN value
    ELSE int_from(10 * value + DigitValue[Head(digits)], Tail(digits))

int_of(digits) == int_from(0, digits)

\* re.match(r'(\d{6})-(\d{4})-(.*?)\.txt', filename): anchored at the start
\* only; the lazy group stops at the first ".txt" it can reach without
\* crossing a "\n" (which "." does not match).
parse_filename(fname) ==
    Only({ IF /\ Len(name) >= 12
              /\ \A k \in 1..6 : IsDigit(name[k])
              /\ name[7] = "-"
              /\ \A k \in 8..11 : IsDigit(name[k])
              /\ name[12] = "-"
           THEN Only({ IF stops = {} THEN << None, None, None >>
                       ELSE Only({ << Some(SubSeq(name, 1, 6)),
                                      Some(int_of(SubSeq(name, 8, 11))),
                                      Some(SubSeq(name, 13, e - 1)) >> :
                                     e \in { x \in stops : \A y \in stops : x <= y } }) :
                         stops \in { { e \in 13..(Len(name) - 3) :
                                         /\ literal_at(name, e, <<".", "t", "x", "t">>)
                                         /\ \A k \in 13..(e - 1) : name[k] # "\n" } } })
           ELSE << None, None, None >> :
             name \in {fname} })

(***************************************************************************)
(* ParseSpec: parse_filename is applied to one filename.                   *)
(***************************************************************************)
MaxNameParts == 2

CodeInputs ==
    { <<"6", "0", "0", "0", "0", "0">>, <<"6", "0", "0", "0", "0">>, <<"6", "0", "0", "0", "0", "0", "0">>, <<"6", "0", "0", "0", "0", "a">> }
SepInputs == { <<"-">>, <<"_">> }
YearInputs ==
    { <<"2", "0", "2", "0">>, <<"2", "0", "2">>, <<"2", "0", "2", "0", "0">> }
NamePieces ==
    { <<"A">>, <<".", "t", "x", "t">>, <<"-">>, <<"\n">> }
ExtInputs ==
    { <<".", "t", "x", "t">>, <<".", "p", "d", "f">>, <<>> }
TrailInputs ==
    { <<>>, <<".", "b", "a", "k">> }

FilenameInputs ==
    { c \o s1 \o y \o s2 \o join(nm) \o e \o t :
        c \in CodeInputs, s1 \in SepInputs, y \in YearInputs, s2 \in SepInputs,
        nm \in UNION { [1..k -> NamePieces] : k \in 0..MaxNameParts },
        e \in ExtInputs, t \in TrailInputs }

ParseInit ==
    /\ filename \in FilenameInputs
    /\ parsed = None
    /\ pc = "parse_start"
    /\ doc = NoDoc
    /\ ScorerIdle /\ BatchIdle /\ MonoIdle

ParseFilename ==
    /\ pc = "parse_start"
    /\ parsed' = Some(parse_filename(filename))
    /\ pc' = "parse_done"
    /\ UNCHANGED << filename, doc, batch_vars, scorer_vars, mono_vars >>

ParseNext == ParseFilename

ParseSpec == ParseInit /\ [][ParseNext]_vars

(***************************************************************************)
(* main() of esg_panel_analyzer.py: the batch driver.                      *)
(***************************************************************************)
MaxFiles == 2

\* the failure reasons written at lines 155, 160 and 166
REASON_ANALYSIS_FAILED == "U+5206U+6790U+5931U+8D25"
REASON_YEAR_OUT_OF_RANGE == "U+5E74U+4EFDU+4E0DU+57282015-2023U+8303U+56F4U+5185"
REASON_ERROR_PREFIX == "U+5904U+7406U+51FAU+9519: "

\* str(e) of the exceptions that the body of the try block can raise
ErrorMessages == { "", "maximum recursion depth exceeded" }

\* names of files of reports_dir whose year is in 2015..2023
InRangeNames ==
    { <<"6", "0", "0", "0", "0", "0", "-", "2", "0", "1", "5", "-", "A", ".", "t", "x", "t">>,
      <<"0", "0", "0", "0", "0", "1", "-", "2", "0", "2", "3", "-", "B", ".", "t", "x", "t">> }

\* names whose year is 2014, 2024, 0000, or that hold no year
OtherNames ==
    { <<"6", "0", "0", "0", "0", "0", "-", "2", "0", "1", "4", "-", "A", ".", "t", "x", "t">>,
      <<"0", "0", "0", "0", "0", "1", "-", "2", "0", "2", "4", "-", "B", ".", "t", "x", "t">>,
      <<"6", "0", "0", "0", "0", "0", "-", "A", ".", "t", "x", "t">>,
      <<"6", "0", "0", "0", "0", "0", "-", "0", "0", "0", "0", "-", "A", ".", "t", "x", "t">> }

\* what a file holds: unreadable, empty, "Gri2.5%"
Unreadable == [readable |-> FALSE, pages |-> <<>>]
EmptyFile == [readable |-> TRUE, pages |-> <<>>]
ReportText ==
    [readable |-> TRUE, pages |-> << <<"G", "r", "i">>, <<"2", ".", "5">>, <<"%">> >>]

File(nm, c) == [name |-> nm, readable |-> c.readable, pages |-> c.pages]

\* the files reports_dir may hold: every content under an in-range name, a
\* report under every other name, and one unreadable file out of range
FilePool ==
    { File(nm, c) : nm \in InRangeNames, c \in {Unreadable, EmptyFile, ReportText} }
        \cup { File(nm, ReportText) : nm \in OtherNames }
        \cup { File(nm, Unreadable) : nm \in { <<"6", "0", "0", "0", "0", "0", "-", "2", "0", "1", "4", "-", "A", ".", "t", "x", "t">> } }

\* Variant of in_range with the lower bound excluded: 2015 < year <= 2023
in_range_exclusive(year) ==
    /\ year # None
    /\ year[1] # 0
    /\ 2015 < year[1]
    /\ year[1] <= 2023

\* line 140: `year and 2015 <= year <= 2023` (None and 0 are falsy)
in_range(year) ==
    /\ year # None
    /\ year[1] # 0
    /\ 2015 <= year[1]
    /\ year[1] <= 2023

\* df.sort_values(['stock_code', 'year']): the order of two rows.  A stock
\* code is six digits, so the order of the strings is the order of the numbers.
row_le(a, b) ==
    \E x \in {int_of(a.stock_code)} : \E y \in {int_of(b.stock_code)} :
        x < y \/ (x = y /\ a.year <= b.year)

\* a row put into rows already sorted, after every row that does not come after it
insert_row(sorted, row) ==
    Only({ SubSeq(sorted, 1, k) \o << row >> \o SubSeq(sorted, k + 1, Len(sorted)) :
             k \in { Cardinality({ j \in 1..Len(sorted) : row_le(sorted[j], row) }) } })

\* df.sort_values(['stock_code', 'year']): rows with equal keys keep their order
RECURSIVE sort_values(_)
sort_values(rows) ==
    IF rows = <<>> THEN <<>>
    ELSE Only({ insert_row(sorted, rows[Len(rows)]) :
                  sorted \in { sort_values(SubSeq(rows, 1, Len(rows) - 1)) } })

\* lines 120-128: main() starts with empty results and failed_files
Init ==
    /\ txt_files = <<>>
    /\ i = 1
    /\ results = <<>>
    /\ failed_files = <<>>
    /\ scores = None /\ exc = None /\ invoked = <<>>
    /\ output_csv = None /\ failed_csv = None
    /\ pc = "start"
    /\ doc = NoDoc
    /\ ScorerIdle /\ MonoIdle /\ ParseIdle

\* lines 130-132: the directory is listed; it holds at most MaxFiles files
ListFiles ==
    /\ pc = "start"
    /\ txt_files' \in UNION { [1..k -> FilePool] : k \in 0..MaxFiles }
    /\ pc' = "loop"
    /\ UNCHANGED << i, results, failed_files, scores, exc, invoked, output_csv,
                    failed_csv, doc, scorer_vars, mono_vars, parse_vars >>

\* one iteration of the for loop, lines 135-151: the year is in range and
\* analyze_report returned scores
ScoreFile ==
    /\ pc = "loop" /\ i <= Len(txt_files)
    /\ \E txt_file \in {txt_files[i]} :
       \E p \in {parse_filename(txt_file.name)} :
           /\ in_range(p[2])
           /\ \E s \in {Panel_analyze_report(txt_file)} :
                 /\ s # None
                 /\ scores' = s
                 /\ invoked' = Append(invoked, txt_file.name)
                 /\ results' = Append(results,
                        [ stock_code      |-> p[1][1],
                          company_name    |-> p[3][1],
                          year            |-> p[2][1],
                          standards_score |-> s[1].standards_score,
                          assurance_score |-> s[1].assurance_score,
                          metrics_score   |-> s[1].metrics_score,
                          total_score     |-> s[1].total_score ])
    /\ exc' = None
    /\ i' = i + 1
    /\ UNCHANGED << txt_files, failed_files, output_csv, failed_csv, pc, doc,
                    scorer_vars, mono_vars, parse_vars >>

\* Variant of AnalysisFailed without the else branch of lines 152-156: the
\* file that could not be analyzed is not recorded
AnalysisFailed_unrecorded ==
    /\ pc = "loop" /\ i <= Len(txt_files)
    /\ \E txt_file \in {txt_files[i]} :
       \E p \in {parse_filename(txt_file.name)} :
           /\ in_range(p[2])
           /\ \E s \in {Panel_analyze_report(txt_file)} :
                 /\ s = None
                 /\ scores' = s
                 /\ invoked' = Append(invoked, txt_file.name)
    /\ exc' = None
    /\ i' = i + 1
    /\ UNCHANGED << txt_files, results, failed_files, output_csv, failed_csv, pc, doc,
                    scorer_vars, mono_vars, parse_vars >>

\* one iteration, lines 135-142 and 152-156: the year is in range and
\* analyze_report returned None
AnalysisFailed ==
    /\ pc = "loop" /\ i <= Len(txt_files)
    /\ \E txt_file \in {txt_files[i]} :
       \E p \in {parse_filename(txt_file.name)} :
           /\ in_range(p[2])
           /\ \E s \in {Panel_analyze_report(txt_file)} :
                 /\ s = None
                 /\ scores' = s
                 /\ invoked' = Append(invoked, txt_file.name)
                 /\ failed_files' = Append(failed_files,
                        [ file |-> txt_file.name, reason |-> REASON_ANALYSIS_FAILED ])
    /\ exc' = None
    /\ i' = i + 1
    /\ UNCHANGED << txt_files, results, output_csv, failed_csv, pc, doc,
                    scorer_vars, mono_vars, parse_vars >>

\* one iteration, lines 135-140 and 157-161: the year is out of range or
\* was not parsed
YearOutOfRange ==
    /\ pc = "loop" /\ i <= Len(txt_files)
    /\ \E txt_file \in {txt_files[i]} :
       \E p \in {parse_filename(txt_file.name)} :
           /\ ~in_range(p[2])
           /\ failed_files' = Append(failed_files,
                  [ file |-> txt_file.name, reason |-> REASON_YEAR_OUT_OF_RANGE ])
    /\ exc' = None
    /\ i' = i + 1
    /\ UNCHANGED << txt_files, results, scores, invoked, output_csv, failed_csv, pc,
                    doc, scorer_vars, mono_vars, parse_vars >>

\* Variant of ProcessingError without the try/except of lines 136 and 162: the
\* exception leaves main() and the run ends there
ProcessingError_uncaught ==
    /\ pc = "loop" /\ i <= Len(txt_files)
    /\ \E txt_file \in {txt_files[i]} :
       \E p \in {parse_filename(txt_file.name)} :
           /\ in_range(p[2])
           /\ extract_text_from_txt(txt_file) # <<>>
           /\ \E message \in ErrorMessages : exc' = Some(message)
           /\ invoked' = Append(invoked, txt_file.name)
    /\ pc' = "crashed"
    /\ UNCHANGED << txt_files, i, results, failed_files, scores, output_csv, failed_csv,
                    doc, scorer_vars, mono_vars, parse_vars >>

\* one iteration, lines 135-141 and 162-167: an exception is raised inside
\* the try block and caught.  parse_filename works on the file's name with
\* re.match and int() of four digits and raises nothing; extract_text_from_txt
\* catches what reading raises; an exception can only come out of the
\* scoring of a non-empty text inside analyze_report.
ProcessingError ==
    /\ pc = "loop" /\ i <= Len(txt_files)
    /\ \E txt_file \in {txt_files[i]} :
       \E p \in {parse_filename(txt_file.name)} :
           /\ in_range(p[2])
           /\ extract_text_from_txt(txt_file) # <<>>
           /\ \E message \in ErrorMessages :
                 /\ exc' = Some(message)
                 /\ failed_files' = Append(failed_files,
                        [ file |-> txt_file.name,
                          reason |-> REASON_ERROR_PREFIX \o message ])
           /\ invoked' = Append(invoked, txt_file.name)
    /\ i' = i + 1
    /\ UNCHANGED << txt_files, results, scores, output_csv, failed_csv, pc, doc,
                    scorer_vars, mono_vars, parse_vars >>

\* lines 169-186: after the loop, the two tables are written
WriteOutput ==
    /\ pc = "loop" /\ i > Len(txt_files)
    /\ output_csv' = IF results # <<>> THEN Some(sort_values(results)) ELSE None
    /\ failed_csv' = IF failed_files # <<>> THEN Some(failed_files) ELSE None
    /\ pc' = "done"
    /\ UNCHANGED << txt_files, i, results, failed_files, scores, exc, invoked, doc,
                    scorer_vars, mono_vars, parse_vars >>

Next == ListFiles \/ ScoreFile \/ AnalysisFailed \/ YearOutOfRange \/ ProcessingError \/ WriteOutput

Spec == Init /\ [][Next]_vars

\* main() runs to its end: every iteration and the output step are taken
FairSpec == Init /\ [][Next]_vars /\ WF_vars(Next)

(***************************************************************************)
(* Properties of the scorers (ScorerSpec).                                 *)
(***************************************************************************)
Range(s) == { s[k] : k \in 1..Len(s) }
Bit(b) == IF b THEN 1 ELSE 0

\* the scored document's text
Text == join(doc.pages)

IsBinaryScoreSum(s, a, m, t) ==
    /\ s \in {0, 1} /\ a \in {0, 1} /\ m \in {0, 1}
    /\ t = s + a + m
    /\ t \in {0, 1, 2, 3}

\* C1: for every non-empty text, analyze_report returns a result whose three
\* sub-scores are each 0 or 1 and whose total_score is their sum, in 0..3
\* (both analyzers).
C1_TotalIsSumOfBinaryScores ==
    (doc.readable /\ Text # <<>>) =>
        /\ pc \in {"panel_analyzed", "quality_checked", "score_done"} =>
              /\ panel # None
              /\ IsBinaryScoreSum(panel[1].standards_score, panel[1].assurance_score,
                                  panel[1].metrics_score, panel[1].total_score)
        /\ pc = "score_done" =>
              /\ quality # None
              /\ IsBinaryScoreSum(quality[1].standards_compliance,
                                  quality[1].third_party_assurance,
                                  quality[1].quantitative_metrics, quality[1].total_score)

\* C1 witness: a document was analyzed and all three signals are present
C1_Witness ==
    /\ pc = "score_done"
    /\ panel # None /\ panel[1].total_score = 3
    /\ quality # None /\ quality[1].total_score = 3

\* two characters that are equal up to the case of an ASCII letter
CasePairs ==
    { <<"A", "a">>, <<"B", "b">>, <<"C", "c">>, <<"D", "d">>, <<"E", "e">>, <<"F", "f">>,
      <<"G", "g">>, <<"H", "h">>, <<"I", "i">>, <<"J", "j">>, <<"K", "k">>, <<"L", "l">>,
      <<"M", "m">>, <<"N", "n">>, <<"O", "o">>, <<"P", "p">>, <<"Q", "q">>, <<"R", "r">>,
      <<"S", "s">>, <<"T", "t">>, <<"U", "u">>, <<"V", "v">>, <<"W", "w">>, <<"X", "x">>,
      <<"Y", "y">>, <<"Z", "z">> }
SameIgnoringCase(a, b) == a = b \/ <<a, b>> \in CasePairs \/ <<b, a>> \in CasePairs

\* the keyword occurs in the text as a contiguous run of characters, compared
\* without regard to case, anywhere (no word boundary is asked for)
OccursIgnoringCase(keyword, text) ==
    \E k \in 1..(Len(text) - Len(keyword) + 1) :
        \A j \in 1..Len(keyword) : SameIgnoringCase(text[k + j - 1], keyword[j])

AnyOccursIgnoringCase(keywords, text) ==
    \E k \in 1..Len(keywords) : OccursIgnoringCase(keywords[k], text)

\* C4: check_standards_compliance returns 1 iff some standards keyword occurs
\* in the text as a contiguous substring compared case-insensitively, else 0;
\* check_third_party_assurance likewise on the assurance keywords; each
\* result is decided by its own keyword set alone (both analyzers).
C4_KeywordScoresAreSubstringMatches ==
    pc = "score_done" =>
        /\ panel_checks[1].standards =
               Bit(AnyOccursIgnoringCase(Panel_standards_keywords, Text))
        /\ panel_checks[1].assurance =
               Bit(AnyOccursIgnoringCase(Panel_assurance_keywords, Text))
        /\ quality_checks[1].standards =
               Bit(AnyOccursIgnoringCase(Quality_standards_keywords, Text))
        /\ quality_checks[1].assurance =
               Bit(AnyOccursIgnoringCase(Quality_assurance_keywords, Text))

\* C4 witness: "Assurance" (capitalised) inside a longer run of letters
\* scores assurance 1 while no standards keyword occurs
C4_Witness ==
    /\ pc = "score_done"
    /\ doc.pages = << <<"B">>, <<"A", "s", "s", "u", "r", "a", "n", "c", "e">>, <<"B">> >>
    /\ panel_checks[1].assurance = 1
    /\ panel_checks[1].standards = 0

\* a numeric literal: digits, optionally a decimal point and more digits
IsNumericLiteral(s) ==
    \E d \in 1..Len(s) :
        /\ \A k \in 1..d : IsDigit(s[k])
        /\ \/ d = Len(s)
           \/ /\ d + 2 <= Len(s)
              /\ s[d + 1] = "."
              /\ \A k \in (d + 2)..Len(s) : IsDigit(s[k])

\* rule 1: a numeric literal, then optional whitespace, then a unit token
NumberThenUnit(text, units) ==
    \E a \in 1..Len(text) : \E b \in a..Len(text) :
        /\ IsDigit(text[a])
        /\ IsNumericLiteral(SubSeq(text, a, b))
        /\ \E c \in (b + 1)..(Len(text) + 1) :
              /\ \A k \in (b + 1)..(c - 1) : IsSpace(text[k])
              /\ \E u \in Range(units) :
                    /\ c + Len(u) - 1 <= Len(text)
                    /\ SubSeq(text, c, c + Len(u) - 1) = u

\* rule 2: a KPI phrase at the very start of the text or right after a line break
KpiPhraseAtLineStart(text, phrases) ==
    \E p \in Range(phrases) :
        \E k \in 1..(Len(text) - Len(p) + 1) :
            /\ SubSeq(text, k, k + Len(p) - 1) = p
            /\ (k = 1 \/ text[k - 1] = "\n")

\* a KPI phrase occurs somewhere in the text
KpiPhraseAnywhere(text, phrases) ==
    \E p \in Range(phrases) :
        \E k \in 1..(Len(text) - Len(p) + 1) : SubSeq(text, k, k + Len(p) - 1) = p

C10_QualityScoresBoundedByPanel ==
    /\ Range(Quality_standards_keywords) \subseteq Range(Panel_standards_keywords)
    /\ pc = "score_done" =>
          /\ quality_checks[1].assurance = panel_checks[1].assurance
          /\ quality_checks[1].metrics = panel_checks[1].metrics
          /\ quality_checks[1].standards <= panel_checks[1].standards
          /\ quality_checks[1].standards # panel_checks[1].standards =>
                /\ \E kw \in Range(Panel_standards_keywords) \ Range(Quality_standards_keywords) :
                      OccursIgnoringCase(kw, Text)
                /\ ~AnyOccursIgnoringCase(Quality_standards_keywords, Text)
          /\ (panel # None /\ quality # None) =>
                /\ quality[1].third_party_assurance = panel[1].assurance_score
                /\ quality[1].quantitative_metrics = panel[1].metrics_score
                /\ quality[1].standards_compliance <= panel[1].standards_score

\* C10 witness: a text on which the two standards scores differ
C10_Witness ==
    /\ pc = "score_done"
    /\ panel # None /\ quality # None
    /\ panel[1].standards_score = 1
    /\ quality[1].standards_compliance = 0

HasFilenameShape(f) ==
    /\ Len(f) >= 16
    /\ \A k \in 1..6 : IsDigit(f[k])
    /\ f[7] = "-"
    /\ \A k \in 8..11 : IsDigit(f[k])
    /\ f[12] = "-"
    /\ SubSeq(f, Len(f) - 3, Len(f)) = <<".", "t", "x", "t">>

YearNumber(f) ==
    1000 * DigitValue[f[8]] + 100 * DigitValue[f[9]] + 10 * DigitValue[f[10]]
        + DigitValue[f[11]]

\* C6: parse_filename returns (code, year as integer, name) exactly when the
\* whole filename is <6-digit code>-<4-digit year>-<name>.txt, name being all
\* the text between the second hyphen and the final ".txt"; for every other
\* filename it returns (None, None, None).
C6_ParsesExactlyTheWholeShape ==
    pc = "parse_done" =>
        parsed[1] = IF HasFilenameShape(filename)
                    THEN << Some(SubSeq(filename, 1, 6)),
                            Some(YearNumber(filename)),
                            Some(SubSeq(filename, 13, Len(filename) - 4)) >>
                    ELSE << None, None, None >>

(***************************************************************************)
(* The batch driver (Spec, FairSpec).                                      *)
(***************************************************************************)
\* the step that ends the iteration on txt_files[i]
IterationStep == pc = "loop" /\ i <= Len(txt_files) /\ i' = i + 1

\* the year parsed from the name of the file being processed, if in 2015..2023
ParsedYearInRange(file) ==
    LET year == parse_filename(file.name)[2]
    IN  year # None /\ year[1] >= 2015 /\ year[1] <= 2023

\* C2: a file whose extracted text is empty (an unreadable file included)
\* makes analyze_report return None, never a result with score 0; with an
\* in-range year it adds no row to results and is recorded in failures
\* with the reason "analysis failed".
C2_EmptyTextIsAnalysisFailed ==
    [][ ( /\ IterationStep
          /\ extract_text_from_txt(txt_files[i]) = <<>>
          /\ ParsedYearInRange(txt_files[i]) )
        => /\ scores' = None
           /\ results' = results
           /\ failed_files' = Append(failed_files,
                  [ file |-> txt_files[i].name, reason |-> REASON_ANALYSIS_FAILED ]) ]_vars

\* C2 witness: an unreadable file with an in-range year has been processed
C2_Witness ==
    /\ i > 1
    /\ ~txt_files[i - 1].readable
    /\ ParsedYearInRange(txt_files[i - 1])
    /\ scores = None
    /\ failed_files # <<>>
    /\ failed_files[Len(failed_files)].reason = REASON_ANALYSIS_FAILED

\* C3: analyze_report is invoked on a file, and the file may add a row, only
\* if its parsed year y satisfies 2015 <= y <= 2023 (bounds included); every
\* other file adds no row and is recorded with the reason "year out of range".
C3_OnlyInRangeYearsAreScored ==
    [][ IterationStep =>
          IF ParsedYearInRange(txt_files[i])
          THEN invoked' = Append(invoked, txt_files[i].name)
          ELSE /\ invoked' = invoked
               /\ results' = results
               /\ failed_files' = Append(failed_files,
                      [ file |-> txt_files[i].name,
                        reason |-> REASON_YEAR_OUT_OF_RANGE ]) ]_vars

\* C3 witness: a 2015 file gave a row and the next file was filtered out
C3_Witness ==
    /\ Len(results) = 1 /\ results[1].year = 2015
    /\ Len(failed_files) = 1
    /\ failed_files[1].reason = REASON_YEAR_OUT_OF_RANGE
    /\ i = 3
    /\ parse_filename(txt_files[2].name)[2] = Some(2024)

\* C7: an error raised while one document is processed does not abort the
\* batch: the file is recorded in failures with its name and the error
\* message as reason, no row is added, the rows collected are kept, the
\* loop goes on, every file is processed and the output step is reached.
C7_ErrorDoesNotAbortBatch ==
    /\ [][ (IterationStep /\ exc' # None) =>
              /\ results' = results
              /\ failed_files' = Append(failed_files,
                     [ file |-> txt_files[i].name,
                       reason |-> REASON_ERROR_PREFIX \o exc'[1] ])
              /\ pc' = "loop" ]_vars
    /\ [](pc = "done" => i = Len(txt_files) + 1)
    /\ [](exc # None => pc \in {"loop", "done"})
    /\ ((exc # None) ~> (pc = "done"))

\* C7 witness: an error on the first file, a row from the second, output written
C7_Witness ==
    /\ pc = "done"
    /\ Len(txt_files) >= 2
    /\ failed_files # <<>>
    /\ failed_files[1].file = txt_files[1].name
    /\ failed_files[1].reason = REASON_ERROR_PREFIX \o "maximum recursion depth exceeded"
    /\ results # <<>>
    /\ output_csv # None

\* C9: after every prefix of the loop each processed file has produced
\* exactly one record, a row or a failure and never both, so at the end
\* len(results) + len(failed_files) is the number of input files.
C9_OneRecordPerFile ==
    /\ [](/\ Len(results) + Len(failed_files) = i - 1
          /\ pc = "done" => Len(results) + Len(failed_files) = Len(txt_files))
    /\ [][ IterationStep =>
             \/ /\ failed_files' = failed_files
                /\ Len(results') = Len(results) + 1
                /\ SubSeq(results', 1, Len(results)) = results
             \/ /\ results' = results
                /\ Len(failed_files') = Len(failed_files) + 1
                /\ SubSeq(failed_files', 1, Len(failed_files)) = failed_files ]_vars

\* C9 witness: a finished run that produced both rows and failures
C9_Witness ==
    /\ pc = "done"
    /\ Len(txt_files) >= 2
    /\ results # <<>>
    /\ failed_files # <<>>
    /\ Len(results) + Len(failed_files) = Len(txt_files)

====
